---- MODULE Spec2Model ----
(***************************************************************************)
(* A model of the NotionExporter client (src/src/NotionExporter.ts): the   *)
(* constructor and its credential/configuration handling, the export      *)
(* workflow getTaskId -> pollTask -> downloadZip -> getFileString, the     *)
(* event loop's timers and the requests and responses in flight between    *)
(* the client and the remote service.                                      *)
(*                                                                         *)
(* JavaScript values are represented as follows.  A string that the code   *)
(* inspects (trim, endsWith, truthiness) is a sequence of one-character    *)
(* strings.  A value that may be undefined is a sequence of length at most *)
(* one: None is undefined, Some(v) is the defined value v.  An object is a *)
(* function from the keys it has to their values.                          *)
(***************************************************************************)
EXTENDS Integers, Sequences, FiniteSets, TLC

VARIABLES
    env,            \* process.env restricted to the two token names
    defaultConfig,  \* the module-level object exported by ./config
    clients,        \* the NotionExporter instances constructed so far
    thrown,         \* the errors thrown by constructor calls, in order
    calls,          \* the export calls made so far (one promise chain each)
    requests,       \* HTTP requests sent and not yet served
    responses,      \* HTTP responses (or transport errors) not yet delivered
    timers,         \* pending setTimeout callbacks
    tasks,          \* the remote service's export tasks, by task id
    console,        \* what console.error was called with, in order
    unhandled,      \* rejections of promises nobody observes
    process         \* the process of the command-line action

vars == <<env, defaultConfig, clients, thrown, calls, requests, responses,
          timers, tasks, console, unhandled, process>>

---------------------------------------------------------------------------
(* Bounds of the model. *)

MaxTokLen == 2
MaxDataLen == 2
MaxEntries == 2
MaxPolls == 3
MaxCalls == 2
MaxConcPolls == 2
MaxClients == 2

---------------------------------------------------------------------------
(* JavaScript values. *)

None == <<>>
Some(v) == <<v>>
IsSome(m) == Len(m) = 1
Get(m) == m[1]

StringsUpTo(chars, n) == UNION {[1..k -> chars] : k \in 0..n}

IsSpace(ch) == ch = " "

RECURSIVE TrimStart(_)
TrimStart(s) ==
    IF s # <<>> /\ IsSpace(Head(s)) THEN TrimStart(Tail(s)) ELSE s

RECURSIVE TrimEnd(_)
TrimEnd(s) ==
    IF s # <<>> /\ IsSpace(s[Len(s)])
    THEN TrimEnd(SubSeq(s, 1, Len(s) - 1))
    ELSE s

\* String.prototype.trim
Trim(s) == TrimEnd(TrimStart(s))

\* String.prototype.endsWith
EndsWith(s, suffix) ==
    /\ Len(suffix) <= Len(s)
    /\ SubSeq(s, Len(s) - Len(suffix) + 1, Len(s)) = suffix

\* Truthiness of a possibly undefined string: undefined and "" are falsy.
TruthyStr(m) == IsSome(m) /\ Get(m) # <<>>

\* Truthiness of a possibly undefined number: undefined and 0 are falsy.
TruthyNum(m) == IsSome(m) /\ Get(m) # 0

\* Reading a property of an object: undefined when the key is absent.
Prop(obj, key) == IF key \in DOMAIN obj THEN Some(obj[key]) ELSE None

\* Object.assign(target, source), and the spread { ...target, ...source }.
ObjectAssign(target, source) ==
    [k \in DOMAIN target \cup DOMAIN source |->
        IF k \in DOMAIN source THEN source[k] ELSE target[k]]

\* The rest of a destructuring: the object without the named keys.
Omit(obj, keys) == [k \in DOMAIN obj \ keys |-> obj[k]]

---------------------------------------------------------------------------
(* Credentials and configuration. *)

tokenV2Name == "NOTION_TOKEN"
fileTokenName == "NOTION_FILE_TOKEN"
EnvNames == {tokenV2Name, fileTokenName}

TokenChars == {" ", "t"}
\* A token argument or environment variable: undefined or a short string.
Tokens == {None} \cup {Some(s) : s \in StringsUpTo(TokenChars, MaxTokLen)}

\* arg?.trim() and process.env[envName]?.trim()
OptTrim(m) == IF IsSome(m) THEN Some(Trim(Get(m))) ELSE None

\* An argOrEnv that does not trim and falls back to the environment only
\* when the argument is undefined.
argOrEnvMutant(environment, envName, arg) ==
    LET token == IF IsSome(arg) THEN arg ELSE environment[envName]
    IN  IF ~IsSome(token)
        THEN [threw |-> TRUE, value |-> <<"Missing", envName>>]
        ELSE [threw |-> FALSE, value |-> Get(token)]

\* argOrEnv: the trimmed argument, else the trimmed environment variable,
\* else the error `Missing ${envName}`.
argOrEnv(environment, envName, arg) ==
    LET token == IF TruthyStr(OptTrim(arg))
                 THEN OptTrim(arg)
                 ELSE OptTrim(environment[envName])
    IN  IF ~TruthyStr(token)
        THEN [threw |-> TRUE, value |-> <<"Missing", envName>>]
        ELSE [threw |-> FALSE, value |-> Get(token)]

\* The default configuration as ./config exports it before any client is
\* constructed: a poll interval, and no recursive flag (the request's
\* recursive defaults to false by the !! of getTaskId).
DefaultPollInterval == 2000
PristineDefaults == [k \in {"pollInterval"} |-> DefaultPollInterval]

\* The objects a caller passes as the constructor's config argument; the
\* empty object also stands for an omitted argument (Object.assign skips
\* an undefined source).
Restrict(obj, keys) == [k \in keys |-> obj[k]]
FullOptions ==
    { [recursive |-> r, pollInterval |-> p, exportType |-> e] :
        r \in BOOLEAN, p \in {500}, e \in {"html"} }
ConfigOptions ==
    { Restrict(o, ks) : o \in FullOptions,
                        ks \in SUBSET {"recursive", "pollInterval", "exportType"} }

\* this.config of a client: Object.assign returns its target, so the
\* config of every client is the module-level defaultConfig object itself.
thisConfig(cl) == defaultConfig

\* new NotionExporter(tokenV2, fileToken, config)
Construct(tokenV2, fileToken, config) ==
    LET token == argOrEnv(env, tokenV2Name, tokenV2)
        fileTok == argOrEnv(env, fileTokenName, fileToken)
    IN  /\ IF token.threw
           THEN /\ thrown' = Append(thrown, [error |-> token.value,
                        tokenV2 |-> tokenV2, fileToken |-> fileToken])
                /\ UNCHANGED <<clients, defaultConfig>>
           ELSE IF fileTok.threw
           THEN /\ thrown' = Append(thrown, [error |-> fileTok.value,
                        tokenV2 |-> tokenV2, fileToken |-> fileToken])
                /\ UNCHANGED <<clients, defaultConfig>>
           ELSE /\ clients' = Append(clients,
                        [cookie |-> <<token.value, fileTok.value>>,
                         tokenV2 |-> tokenV2, fileToken |-> fileToken,
                         options |-> config])
                /\ defaultConfig' = ObjectAssign(defaultConfig, config)
                /\ UNCHANGED thrown
        /\ UNCHANGED <<process, env, calls, requests, responses, timers, tasks,
                       console, unhandled>>

---------------------------------------------------------------------------
(* Block identifiers.  An input names how it is written and the block it  *)
(* names; the resolver yields the block's id, or undefined.               *)

IdInputs == { <<"id", "b1">>, <<"url", "b1">>,
              <<"text", "">>, <<"urlWithoutId", "">> }

\* blockIdFromUrl: the id in a URL's last path segment, else the input.
blockIdFromUrl(idOrUrl) ==
    IF idOrUrl[1] = "url" THEN <<"id", idOrUrl[2]>> ELSE idOrUrl

\* validateUuid: the normalised id of a well-formed id, else undefined.
validateUuid(id) == IF id[1] = "id" THEN Some(id[2]) ELSE None

---------------------------------------------------------------------------
(* The remote service and the messages in flight. *)

\* The export URL the remote service gives the archive of a task.
UrlOf(taskId) == <<"u", taskId>>

TaskRecord(taskId, state, exportURL) ==
    [id |-> taskId, state |-> state, status |-> [exportURL |-> exportURL]]

\* What the service may report of the task asked for.
ReportsOf(taskId) ==
    { TaskRecord(taskId, "not_started", None),
      TaskRecord(taskId, "in_progress", None),
      TaskRecord(taskId, "success", Some(UrlOf(taskId))),
      TaskRecord(taskId, "success", None),
      TaskRecord(taskId, "success", Some(<<>>)),
      TaskRecord(taskId, "failure", None),
      TaskRecord(taskId, "failure", Some(UrlOf(taskId))) }

\* The results of a getTasks response to a query for taskId: the record
\* of that task or none, possibly after the record of another task.
ResultsFor(taskId) ==
    LET others == { TaskRecord(o, "success", Some(UrlOf(o))) :
                        o \in (1..Len(tasks)) \ {taskId} }
        own == {<<>>} \cup { <<r>> : r \in ReportsOf(taskId) }
    IN  own \cup { <<o>> \o r : o \in others, r \in own }

\* Archive entries: a name and the entry's bytes as text.
ViewCurrentCsv ==
    <<"v","i","e","w","_","c","u","r","r","e","n","t",".","c","s","v">>
TableAllCsv == <<"t","a","b","l","e","_","a","l","l",".","c","s","v">>
PageMd == <<"p","a","g","e",".","m","d">>
EntryNames == {ViewCurrentCsv, TableAllCsv, PageMd}
DataChars == {" ", "a"}
Entries ==
    { [name |-> n, data |-> d] :
        n \in EntryNames, d \in StringsUpTo(DataChars, MaxDataLen) }
\* The archives the service may deliver: entries with distinct names.
Archives ==
    { z \in UNION {[1..k -> Entries] : k \in 0..MaxEntries} :
        \A i, j \in DOMAIN z : z[i].name = z[j].name => i = j }

\* A request or a response of call c, the n-th of that call.
Message(c, n, kind, ok, taskId, body, results, url, zip, error) ==
    [call |-> c, n |-> n, kind |-> kind, ok |-> ok, taskId |-> taskId,
     body |-> body, results |-> results, url |-> url, zip |-> zip,
     error |-> error]

EmptyObject == [k \in {} |-> k]

EnqueueRequest(c, n, body) ==
    Message(c, n, "enqueueTask", TRUE, 0, body, <<>>, <<>>, <<>>, <<>>)
GetTasksRequest(c, n, taskId) ==
    Message(c, n, "getTasks", TRUE, taskId, EmptyObject, <<>>, <<>>, <<>>, <<>>)
DownloadRequest(c, n, url) ==
    Message(c, n, "download", TRUE, 0, EmptyObject, <<>>, url, <<>>, <<>>)

\* The error axios rejects with when a request fails.
AxiosError(kind) == <<"AxiosError", kind>>

---------------------------------------------------------------------------
(* The export calls. *)

Ops == {"getZipUrl", "getZip", "getMdFiles", "getMdString", "getCsvString"}

\* The state of one export call: its arguments, this.config as it is when
\* the operation is called (config), the closure of its poll
\* loop (taskId, interval), the promise pollTask returns (poll, settles),
\* the promise the caller holds (result, value, reason), and a record of
\* what it did (sent, queried, delays, observed, downloads) and of the
\* archive it was given (zip).
NewCall(cl, op, idOrUrl, onlyCurrentView) ==
    [client |-> cl, op |-> op, idOrUrl |-> idOrUrl,
     onlyCurrentView |-> onlyCurrentView,
     config |-> thisConfig(cl),
     taskId |-> None, interval |-> None,
     poll |-> "none", settles |-> 0,
     result |-> "pending", value |-> <<>>, reason |-> <<>>,
     sent |-> 0, timersSet |-> 0,
     queried |-> <<>>, delays |-> <<>>, observed |-> <<>>,
     downloads |-> <<>>, zip |-> None]

Rejected(call, reason) == [call EXCEPT !.result = "rejected", !.reason = reason]
Resolved(call, value) == [call EXCEPT !.result = "resolved", !.value = value]

\* A body whose export options are the configuration without recursive.
EnqueueBodyMutant(id, config) ==
    [task |->
        [eventName |-> "exportBlock",
         request |->
            [block |-> [id |-> id],
             recursive |-> (Prop(config, "recursive") = Some(TRUE)),
             shouldExportComments |-> FALSE,
             exportOptions |->
                ObjectAssign([exportType |-> "markdown"],
                             Omit(config, {"recursive"}))]]]

\* The body getTaskId posts to enqueueTask.
EnqueueBody(id, config) ==
    [task |->
        [eventName |-> "exportBlock",
         request |->
            [block |-> [id |-> id],
             recursive |-> (Prop(config, "recursive") = Some(TRUE)),
             shouldExportComments |-> FALSE,
             exportOptions |->
                ObjectAssign([exportType |-> "markdown"],
                             Omit(config, {"recursive", "pollInterval"}))]]]

\* A getTaskId that rejects an invalid identifier and goes on to post.
StartCallMutant(cl, op, idOrUrl, onlyCurrentView) ==
    LET c == Len(calls) + 1
        id == validateUuid(blockIdFromUrl(idOrUrl))
        call == NewCall(cl, op, idOrUrl, onlyCurrentView)
    IN  /\ cl \in DOMAIN clients
        /\ calls' = Append(calls,
                IF ~IsSome(id)
                THEN Rejected([call EXCEPT !.sent = 1],
                              <<"Invalid URL or blockId", idOrUrl>>)
                ELSE [call EXCEPT !.sent = 1])
        /\ requests' = requests \cup
                {EnqueueRequest(c, 1,
                    EnqueueBody(IF IsSome(id) THEN Get(id) ELSE "undefined",
                                thisConfig(cl)))}
        /\ UNCHANGED <<process, env, defaultConfig, clients, thrown, responses, timers,
                       tasks, console, unhandled>>

\* An export operation is called: the synchronous part of getTaskId, up
\* to the enqueueTask request.
StartCall(cl, op, idOrUrl, onlyCurrentView) ==
    LET c == Len(calls) + 1
        id == validateUuid(blockIdFromUrl(idOrUrl))
        call == NewCall(cl, op, idOrUrl, onlyCurrentView)
    IN  /\ cl \in DOMAIN clients
        /\ IF ~IsSome(id)
           THEN /\ calls' = Append(calls,
                        Rejected(call, <<"Invalid URL or blockId", idOrUrl>>))
                /\ UNCHANGED requests
           ELSE /\ calls' = Append(calls, [call EXCEPT !.sent = 1])
                /\ requests' = requests \cup
                        {EnqueueRequest(c, 1, EnqueueBody(Get(id), thisConfig(cl)))}
        /\ UNCHANGED <<process, env, defaultConfig, clients, thrown, responses, timers,
                       tasks, console, unhandled>>

\* The remote service serves an enqueueTask request: it creates a task.
ServeEnqueue(req) ==
    /\ req \in requests
    /\ req.kind = "enqueueTask"
    /\ requests' = requests \ {req}
    /\ tasks' = Append(tasks,
            [block |-> req.body.task.request.block.id, call |-> req.call])
    /\ responses' = responses \cup
            {[req EXCEPT !.taskId = Len(tasks) + 1]}
    /\ UNCHANGED <<process, env, defaultConfig, clients, thrown, calls, timers,
                   console, unhandled>>

\* A request fails in the network or is refused by the remote service.
FailRequest(req) ==
    /\ req \in requests
    /\ requests' = requests \ {req}
    /\ responses' = responses \cup
            {[req EXCEPT !.ok = FALSE, !.error = AxiosError(req.kind)]}
    /\ UNCHANGED <<process, env, defaultConfig, clients, thrown, calls, timers, tasks,
                   console, unhandled>>

\* pollTask's interval: this.config.pollInterval || defaultConfig.pollInterval
PollInterval(cl) ==
    IF TruthyNum(Prop(thisConfig(cl), "pollInterval"))
    THEN Prop(thisConfig(cl), "pollInterval")
    ELSE Prop(defaultConfig, "pollInterval")

\* A timer set without the interval: setTimeout(poll).
TimerMutant(c, n, delay) == [call |-> c, n |-> n, delay |-> None]

\* setTimeout(poll, interval) in call c, the n-th timer of the call.
Timer(c, n, delay) == [call |-> c, n |-> n, delay |-> delay]

\* A getZipUrl that starts pollTask whether getTaskId resolved or not.
EnqueueResponseMutant(resp) ==
    LET c == resp.call
        call == calls[c]
        interval == PollInterval(call.client)
    IN  /\ resp \in responses
        /\ resp.kind = "enqueueTask"
        /\ responses' = responses \ {resp}
        /\ calls' = [calls EXCEPT ![c] =
                [call EXCEPT !.taskId = Some(resp.taskId),
                             !.interval = interval,
                             !.poll = "pending",
                             !.timersSet = 1]]
        /\ timers' = timers \cup {Timer(c, 1, interval)}
        /\ UNCHANGED <<process, env, defaultConfig, clients, thrown, requests, tasks,
                       console, unhandled>>

\* A pollTask that sets the first timer twice.
EnqueueResponseTwiceMutant(resp) ==
    LET c == resp.call
        call == calls[c]
        interval == PollInterval(call.client)
    IN  /\ resp \in responses
        /\ resp.kind = "enqueueTask"
        /\ responses' = responses \ {resp}
        /\ IF ~resp.ok
           THEN /\ calls' = [calls EXCEPT ![c] = Rejected(call, resp.error)]
                /\ UNCHANGED timers
           ELSE /\ calls' = [calls EXCEPT ![c] =
                        [call EXCEPT !.taskId = Some(resp.taskId),
                                     !.interval = interval,
                                     !.poll = "pending",
                                     !.timersSet = 2]]
                /\ timers' = timers \cup
                        {Timer(c, 1, interval), Timer(c, 2, interval)}
        /\ UNCHANGED <<process, env, defaultConfig, clients, thrown, requests, tasks,
                       console, unhandled>>

\* The enqueueTask response arrives: getTaskId returns res.data.taskId and
\* getZipUrl's then() starts pollTask, which sets the first timer.
EnqueueResponse(resp) ==
    LET c == resp.call
        call == calls[c]
        interval == PollInterval(call.client)
    IN  /\ resp \in responses
        /\ resp.kind = "enqueueTask"
        /\ responses' = responses \ {resp}
        /\ IF ~resp.ok
           THEN /\ calls' = [calls EXCEPT ![c] = Rejected(call, resp.error)]
                /\ UNCHANGED timers
           ELSE /\ calls' = [calls EXCEPT ![c] =
                        [call EXCEPT !.taskId = Some(resp.taskId),
                                     !.interval = interval,
                                     !.poll = "pending",
                                     !.timersSet = 1]]
                /\ timers' = timers \cup {Timer(c, 1, interval)}
        /\ UNCHANGED <<process, env, defaultConfig, clients, thrown, requests, tasks,
                       console, unhandled>>

\* The task id the poll loop of call c queries: pollTask's parameter.
PolledTaskId(c) == Get(calls[c].taskId)

\* A timer that stays set after it fired, as one set with setInterval.
TimerFireMutant(t) ==
    LET c == t.call
        call == calls[c]
    IN  /\ t \in timers
        /\ UNCHANGED timers
        /\ calls' = [calls EXCEPT ![c] =
                [call EXCEPT !.sent = @ + 1,
                             !.delays = Append(@, t.delay),
                             !.queried = Append(@, PolledTaskId(c))]]
        /\ requests' = requests \cup
                {GetTasksRequest(c, call.sent + 1, PolledTaskId(c))}
        /\ UNCHANGED <<process, env, defaultConfig, clients, thrown, responses, tasks,
                       console, unhandled>>

\* A poll timer fires: poll() runs up to the getTasks request of getTask.
TimerFire(t) ==
    LET c == t.call
        call == calls[c]
    IN  /\ t \in timers
        /\ timers' = timers \ {t}
        /\ calls' = [calls EXCEPT ![c] =
                [call EXCEPT !.sent = @ + 1,
                             !.delays = Append(@, t.delay),
                             !.queried = Append(@, PolledTaskId(c))]]
        /\ requests' = requests \cup
                {GetTasksRequest(c, call.sent + 1, PolledTaskId(c))}
        /\ UNCHANGED <<process, env, defaultConfig, clients, thrown, responses, tasks,
                       console, unhandled>>

\* The remote service serves a getTasks request.
ServeGetTasks(req, results) ==
    /\ req \in requests
    /\ req.kind = "getTasks"
    /\ requests' = requests \ {req}
    /\ responses' = responses \cup {[req EXCEPT !.results = results]}
    /\ UNCHANGED <<process, env, defaultConfig, clients, thrown, calls, timers, tasks,
                   console, unhandled>>

\* A getTask that returns the first record of the results.
FindTaskMutant(results, taskId) ==
    IF results = <<>> THEN None ELSE Some(results[1])

\* Array.prototype.find over the results: the first record with the id,
\* else undefined.
FindTask(results, taskId) ==
    LET hits == {i \in DOMAIN results : results[i].id = taskId}
    IN  IF hits = {} THEN None
        ELSE Some(results[CHOOSE i \in hits : \A j \in hits : i <= j])

\* resolve(value) or reject(reason) of pollTask's promise: it settles the
\* promise when it is pending and does nothing otherwise.
Settle(call, outcome) ==
    IF call.poll = "pending"
    THEN [call EXCEPT !.poll = outcome, !.settles = @ + 1]
    ELSE [call EXCEPT !.settles = @ + 1]

\* A poll() that polls again whenever the task has not succeeded.
PollDecisionMutant(task) ==
    IF task.state = "success" /\ TruthyStr(task.status.exportURL)
    THEN "resolve"
    ELSE "again"

\* A poll() that resolves whenever the task has an export URL, whatever
\* its state.
PollDecisionUrlMutant(task) ==
    IF TruthyStr(task.status.exportURL)
    THEN "resolve"
    ELSE IF task.state = "in_progress" \/ task.state = "not_started"
    THEN "again"
    ELSE "reject"

\* A poll() that polls again only for a task in progress.
PollDecisionStartedMutant(task) ==
    IF task.state = "success" /\ TruthyStr(task.status.exportURL)
    THEN "resolve"
    ELSE IF task.state = "in_progress"
    THEN "again"
    ELSE "reject"

\* What poll() does with the task getTask returned.
PollDecision(task) ==
    IF task.state = "success" /\ TruthyStr(task.status.exportURL)
    THEN "resolve"
    ELSE IF task.state = "in_progress" \/ task.state = "not_started"
    THEN "again"
    ELSE "reject"

\* An error message that does not name the task.
ExportTaskFailedMutant(taskId) == <<"Export task failed">>

\* The reason poll() rejects with: `Export task failed: ${taskId}.`
ExportTaskFailed(taskId) == <<"Export task failed", taskId>>

\* The arguments of console.error(taskId, task).
ConsoleError(taskId, task) == <<taskId, task>>

\* The getTasks response arrives: the rest of getTask and of poll().
GetTasksResponse(resp) ==
    LET c == resp.call
        call == calls[c]
        taskId == PolledTaskId(c)
        \* getTask searches for the id it was called with and sent
        task == FindTask(resp.results, resp.taskId)
        seen == [call EXCEPT !.observed =
                    Append(@, [threw |-> ~resp.ok, task |-> task])]
    IN  /\ resp \in responses
        /\ resp.kind = "getTasks"
        /\ responses' = responses \ {resp}
        /\ IF ~resp.ok
           THEN \* getTask throws inside poll(): the promise of poll() is
                \* rejected, and nothing observes it.
                /\ calls' = [calls EXCEPT ![c] =
                        [call EXCEPT !.observed =
                            Append(@, [threw |-> TRUE, task |-> None])]]
                /\ unhandled' = unhandled \cup
                        {[call |-> c, error |-> resp.error]}
                /\ UNCHANGED <<requests, timers, console>>
           ELSE IF ~IsSome(task)
           THEN \* task is undefined: reading task.state throws a TypeError.
                /\ calls' = [calls EXCEPT ![c] = seen]
                /\ unhandled' = unhandled \cup
                        {[call |-> c, error |-> <<"TypeError", "state">>]}
                /\ UNCHANGED <<requests, timers, console>>
           ELSE IF PollDecision(Get(task)) = "resolve"
           THEN LET url == Get(Get(task).status.exportURL)
                    done == Settle(seen, "resolved")
                IN  /\ IF call.poll # "pending"
                       THEN /\ calls' = [calls EXCEPT ![c] = done]
                            /\ UNCHANGED requests
                       ELSE IF call.op = "getZipUrl"
                       THEN /\ calls' = [calls EXCEPT ![c] = Resolved(done, url)]
                            /\ UNCHANGED requests
                       ELSE /\ calls' = [calls EXCEPT ![c] =
                                    [done EXCEPT !.sent = @ + 1,
                                                 !.downloads = Append(@, url)]]
                            /\ requests' = requests \cup
                                    {DownloadRequest(c, call.sent + 1, url)}
                    /\ UNCHANGED <<timers, console, unhandled>>
           ELSE IF PollDecision(Get(task)) = "again"
           THEN /\ calls' = [calls EXCEPT ![c] =
                        [seen EXCEPT !.timersSet = @ + 1]]
                /\ timers' = timers \cup
                        {Timer(c, call.timersSet + 1, call.interval)}
                /\ UNCHANGED <<requests, console, unhandled>>
           ELSE /\ console' = Append(console, ConsoleError(taskId, Get(task)))
                /\ calls' = [calls EXCEPT ![c] =
                        IF call.poll # "pending"
                        THEN Settle(seen, "rejected")
                        ELSE Rejected(Settle(seen, "rejected"),
                                      ExportTaskFailed(taskId))]
                /\ UNCHANGED <<requests, timers, unhandled>>
        /\ UNCHANGED <<process, env, defaultConfig, clients, thrown, tasks>>

\* The remote service serves the download of an export URL.
ServeDownload(req, zip) ==
    /\ req \in requests
    /\ req.kind = "download"
    /\ requests' = requests \ {req}
    /\ responses' = responses \cup {[req EXCEPT !.zip = zip]}
    /\ UNCHANGED <<process, env, defaultConfig, clients, thrown, calls, timers, tasks,
                   console, unhandled>>

\* Array.prototype.find over the entries: the first whose name has the
\* suffix, else undefined.
FindEntry(zip, suffix) ==
    LET hits == {i \in DOMAIN zip : EndsWith(zip[i].name, suffix)}
    IN  IF hits = {} THEN None
        ELSE Some(zip[CHOOSE i \in hits : \A j \in hits : i <= j])

DotCsv == <<".","c","s","v">>
AllCsv == <<"_","a","l","l",".","c","s","v">>
DotMd == <<".","m","d">>

\* The rest of getFileString once getZip delivered: the trimmed text of
\* the found entry if that is truthy, else a rejection.
getFileString(zip, suffix) ==
    LET entry == FindEntry(zip, suffix)
        text == IF IsSome(entry) THEN Some(Trim(Get(entry).data)) ELSE None
    IN  IF TruthyStr(text)
        THEN [result |-> "resolved", value |-> Get(text), reason |-> <<>>]
        ELSE [result |-> "rejected", value |-> <<>>,
              reason |-> <<"Could not find file in ZIP.">>]

\* getCsvString's predicate: onlyCurrentView ? ".csv" : "_all.csv"
CsvSuffix(onlyCurrentView) ==
    IF onlyCurrentView = Some(TRUE) THEN DotCsv ELSE AllCsv

getCsvString(zip, onlyCurrentView) == getFileString(zip, CsvSuffix(onlyCurrentView))

getMdString(zip) == getFileString(zip, DotMd)

\* The download response arrives: downloadZip wraps the data in an AdmZip
\* and the operation called finishes with it.
DownloadResponse(resp) ==
    LET c == resp.call
        call == calls[c]
        out == IF call.op = "getCsvString"
               THEN getCsvString(resp.zip, call.onlyCurrentView)
               ELSE getMdString(resp.zip)
    IN  /\ resp \in responses
        /\ resp.kind = "download"
        /\ responses' = responses \ {resp}
        /\ calls' = [calls EXCEPT ![c] =
                IF ~resp.ok THEN Rejected(call, resp.error)
                ELSE IF call.op = "getZip"
                THEN Resolved([call EXCEPT !.zip = Some(resp.zip)], resp.zip)
                ELSE IF call.op = "getMdFiles"
                THEN Resolved([call EXCEPT !.zip = Some(resp.zip)], None)
                ELSE [call EXCEPT !.result = out.result,
                                  !.value = out.value,
                                  !.reason = out.reason,
                                  !.zip = Some(resp.zip)]]
        /\ UNCHANGED <<process, env, defaultConfig, clients, thrown, requests, timers,
                       tasks, console, unhandled>>

---------------------------------------------------------------------------
(* Specifications. *)

\* The process before the command-line action runs; the library
\* specifications leave it so.  mode is what the runtime does with a
\* rejection nobody observes: "throw" ends the process, "warn" goes on.
NewProcess(mode) ==
    [status |-> "running", exitCode |-> 0, mode |-> mode, stage |-> "init",
     fileType |-> "", blockId |-> <<>>, recursive |-> FALSE,
     tokenV2 |-> <<>>, fileToken |-> <<>>, logged |-> <<>>]

ValidEnv == [n \in EnvNames |-> Some(<<"t">>)]

\* The state after the clients with the given constructor options were
\* constructed, one after the other, with the tokens taken from env.
RECURSIVE AssignAll(_, _)
AssignAll(config, options) ==
    IF options = <<>> THEN config
    ELSE AssignAll(ObjectAssign(config, Head(options)), Tail(options))

InitConstructed(options) ==
    /\ env = ValidEnv
    /\ defaultConfig = AssignAll(PristineDefaults, options)
    /\ clients = [i \in DOMAIN options |->
            [cookie |-> <<(<<"t">>), (<<"t">>)>>,
             tokenV2 |-> None, fileToken |-> None, options |-> options[i]]]
    /\ thrown = <<>>
    /\ calls = <<>>
    /\ requests = {}
    /\ responses = {}
    /\ timers = {}
    /\ tasks = <<>>
    /\ console = <<>>
    /\ unhandled = {}
    /\ process = NewProcess("warn")

OnlyCurrentViewArgs == {None, Some(TRUE), Some(FALSE)}

\* The arguments an operation is called with.
CallArgs ==
    { <<op, id, v>> \in Ops \X IdInputs \X OnlyCurrentViewArgs :
        op # "getCsvString" => v = None }

\* A few archives, for the specifications that are about the poll loop.
SampleArchives ==
    { <<>>, <<[name |-> PageMd, data |-> <<"a">>]>>,
      <<[name |-> TableAllCsv, data |-> <<"a">>]>> }

\* The constructor options that set at most the poll interval.
PollOptions == {o \in ConfigOptions : DOMAIN o \subseteq {"pollInterval"}}

EventLoop ==
    \/ \E resp \in responses : EnqueueResponse(resp)
    \/ \E t \in timers :
            /\ Len(calls[t.call].queried) < MaxPolls
            /\ TimerFire(t)
    \/ \E resp \in responses : GetTasksResponse(resp)
    \/ \E resp \in responses : DownloadResponse(resp)

\* Spec: one export call on one client, any operation and identifier, the
\* remote service answering the status queries in any way.
Init == \E o \in PollOptions : InitConstructed(<<o>>)

Start ==
    \E a \in CallArgs :
        /\ calls = <<>>
        /\ StartCall(1, a[1], a[2], a[3])

Environment ==
    \/ \E req \in requests : ServeEnqueue(req)
    \/ \E req \in requests : FailRequest(req)
    \/ \E req \in requests : \E results \in ResultsFor(req.taskId) :
            ServeGetTasks(req, results)
    \/ \E req \in requests : \E zip \in SampleArchives : ServeDownload(req, zip)

Next == Start \/ Environment \/ EventLoop

Spec == Init /\ [][Next]_vars

\* SpecZip: one call of an operation that reads the archive, the remote
\* service enqueuing, reporting success at once and delivering any archive.
StartZip ==
    \E a \in CallArgs :
        /\ calls = <<>>
        /\ a[1] \in {"getZip", "getMdString", "getCsvString"}
        /\ a[2] = <<"id", "b1">>
        /\ StartCall(1, a[1], a[2], a[3])

EnvironmentZip ==
    \/ \E req \in requests : ServeEnqueue(req)
    \/ \E req \in requests :
            ServeGetTasks(req,
                <<TaskRecord(req.taskId, "success", Some(UrlOf(req.taskId)))>>)
    \/ \E req \in requests : \E zip \in Archives : ServeDownload(req, zip)

NextZip == StartZip \/ EnvironmentZip \/ EventLoop

InitZip == InitConstructed(<<EmptyObject>>)

SpecZip == InitZip /\ [][NextZip]_vars

\* SpecCfg: clients constructed with any options, before and after one
\* call of getZipUrl that goes as far as setting its first poll timer.
InitNoClient(environment) ==
    /\ env = environment
    /\ defaultConfig = PristineDefaults
    /\ clients = <<>>
    /\ thrown = <<>>
    /\ calls = <<>>
    /\ requests = {}
    /\ responses = {}
    /\ timers = {}
    /\ tasks = <<>>
    /\ console = <<>>
    /\ unhandled = {}
    /\ process = NewProcess("warn")

InitCfg == InitNoClient(ValidEnv)

NextCfg ==
    \/ \E o \in ConfigOptions :
            /\ Len(clients) < MaxClients
            /\ Construct(None, None, o)
    \/ \E cl \in DOMAIN clients :
            /\ calls = <<>>
            /\ StartCall(cl, "getZipUrl", <<"id", "b1">>, None)
    \/ \E req \in requests : ServeEnqueue(req)
    \/ \E resp \in responses : EnqueueResponse(resp)

SpecCfg == InitCfg /\ [][NextCfg]_vars

\* SpecCred: one constructor call with any token arguments in any
\* environment, and a call of getZipUrl on the client if there is one.
InitCred == \E e \in [EnvNames -> Tokens] : InitNoClient(e)

NextCred ==
    \/ \E t1, t2 \in Tokens :
            /\ clients = <<>> /\ thrown = <<>>
            /\ Construct(t1, t2, EmptyObject)
    \/ \E cl \in DOMAIN clients :
            /\ calls = <<>>
            /\ StartCall(cl, "getZipUrl", <<"id", "b1">>, None)
    \/ \E req \in requests : ServeEnqueue(req)

SpecCred == InitCred /\ [][NextCred]_vars

\* SpecConc: concurrent calls of getZipUrl on one client, their requests,
\* timers and responses interleaved in any way; a getTasks response may
\* list another task before the one asked for.
ConcReportsOf(taskId) ==
    { TaskRecord(taskId, "in_progress", None),
      TaskRecord(taskId, "success", Some(UrlOf(taskId))),
      TaskRecord(taskId, "failure", None) }

ConcResultsFor(taskId) ==
    LET others == { TaskRecord(o, "success", Some(UrlOf(o))) :
                        o \in (1..Len(tasks)) \ {taskId} }
        own == { <<r>> : r \in ConcReportsOf(taskId) }
    IN  own \cup { <<o>> \o r : o \in others, r \in own }

InitConc == InitConstructed(<<EmptyObject>>)

NextConc ==
    \/ /\ Len(calls) < MaxCalls
       /\ StartCall(1, "getZipUrl", <<"id", "b1">>, None)
    \/ \E req \in requests : ServeEnqueue(req)
    \/ \E req \in requests : \E results \in ConcResultsFor(req.taskId) :
            ServeGetTasks(req, results)
    \/ \E resp \in responses : EnqueueResponse(resp)
    \/ \E t \in timers :
            /\ Len(calls[t.call].queried) < MaxConcPolls
            /\ TimerFire(t)
    \/ \E resp \in responses : GetTasksResponse(resp)

SpecConc == InitConc /\ [][NextConc]_vars

\* SpecLive: one call of getZipUrl with a valid identifier, no request
\* failing, every status query answered with a record of the task, and
\* the task in a terminal state at the last query the model allows at the
\* latest.  Timers fire and responses are delivered and served fairly.
TerminalReportsOf(taskId) ==
    {r \in ReportsOf(taskId) : r.state \notin {"not_started", "in_progress"}}

LiveResultsFor(req) ==
    IF Len(calls[req.call].queried) < MaxPolls
    THEN { <<r>> : r \in ReportsOf(req.taskId) }
    ELSE { <<r>> : r \in TerminalReportsOf(req.taskId) }

InitLive == Init

StartLive ==
    \E i \in {<<"id", "b1">>, <<"url", "b1">>} :
        /\ calls = <<>>
        /\ StartCall(1, "getZipUrl", i, None)

EnvironmentLive ==
    \/ \E req \in requests : ServeEnqueue(req)
    \/ \E req \in requests : \E results \in LiveResultsFor(req) :
            ServeGetTasks(req, results)

EventLoopLive ==
    \/ \E resp \in responses : EnqueueResponse(resp)
    \/ \E t \in timers :
            /\ Len(calls[t.call].queried) < MaxPolls
            /\ TimerFire(t)
    \/ \E resp \in responses : GetTasksResponse(resp)

NextLive == StartLive \/ EnvironmentLive \/ EventLoopLive

SpecLive ==
    /\ InitLive
    /\ [][NextLive]_vars
    /\ WF_vars(EnvironmentLive)
    /\ WF_vars(EventLoopLive)

---------------------------------------------------------------------------
(* The command-line action of action.ts. *)

FileType == {"md", "csv"}
isFileType(type) == type \in FileType

\* The --type values a user may give, one of them no file type.
TypeArgs == {"md", "csv", "txt"}

\* The block arguments a user may give: a valid id and an invalid text.
BlockArgs == { <<"id", "b1">>, <<"text", "">> }

\* What a user types at the token prompt: nothing or a token.
Answers == { <<>>, <<"t">> }

\* The environments the action runs in: each token variable unset, blank
\* or set.
CliEnvs == [EnvNames -> {None, Some(<<" ">>), Some(<<"t">>)}]

\* envOrAskToken: process.env[tokenName] || (await askToken(tokenName))
envOrAskToken(tokenName, answer) ==
    IF TruthyStr(env[tokenName]) THEN Get(env[tokenName]) ELSE answer

\* process.exit(code)
Exit(proc, code) == [proc EXCEPT !.status = "exited", !.exitCode = code]

\* The catch handler of the action: prints the error and process.exit(1).
Catch(proc) == Exit([proc EXCEPT !.stage = "done", !.logged = Append(@, "error")], 1)

\* action(blockId, fileType, {recursive}) up to the construction: the
\* file type check and the two tokens, from the environment or the prompt.
CliBegin(blockId, fileType, recursive, answer1, answer2) ==
    /\ process.status = "running"
    /\ process.stage = "init"
    /\ IF ~isFileType(fileType)
       THEN process' = Exit([process EXCEPT !.fileType = fileType,
                                !.logged = Append(@, "fileType")], 1)
       ELSE process' = [process EXCEPT
                !.stage = "tokens",
                !.fileType = fileType,
                !.blockId = blockId,
                !.recursive = recursive,
                !.tokenV2 = envOrAskToken(tokenV2Name, answer1),
                !.fileToken = envOrAskToken(fileTokenName, answer2)]
    /\ UNCHANGED <<env, defaultConfig, clients, thrown, calls, requests,
                   responses, timers, tasks, console, unhandled>>

\* new NotionExporter(tokenV2, fileToken, config) in the action; when it
\* throws, the promise of action() is rejected and nothing observes it.
CliConstruct ==
    /\ process.status = "running"
    /\ process.stage = "tokens"
    /\ clients = <<>> /\ thrown = <<>>
    /\ Construct(Some(process.tokenV2), Some(process.fileToken),
                 [recursive |-> process.recursive])

\* exporter.getCsvString(blockId) or exporter.getMdString(blockId)
CliCall ==
    /\ process.status = "running"
    /\ process.stage = "tokens"
    /\ clients # <<>> /\ calls = <<>>
    /\ StartCall(1, IF process.fileType = "csv" THEN "getCsvString"
                    ELSE "getMdString",
                 process.blockId, None)

\* outputStr.then(console.log).catch(...): the string is printed, or the
\* error is printed and the process exits with status 1.
CliSettled ==
    /\ process.status = "running"
    /\ process.stage = "tokens"
    /\ calls # <<>>
    /\ calls[1].result # "pending"
    /\ process' = IF calls[1].result = "resolved"
                  THEN [process EXCEPT !.stage = "done",
                                       !.logged = Append(@, "output")]
                  ELSE Catch(process)
    /\ UNCHANGED <<env, defaultConfig, clients, thrown, calls, requests,
                   responses, timers, tasks, console, unhandled>>

\* The rejections nothing observes: those of poll(), and that of action()
\* when the constructor threw.
Unobserved == unhandled # {} \/ thrown # <<>>

\* The runtime ends the process on a rejection nothing observes, when it
\* is set to do so.
RuntimeThrow ==
    /\ process.status = "running"
    /\ process.mode = "throw"
    /\ Unobserved
    /\ process' = Exit(process, 1)
    /\ UNCHANGED <<env, defaultConfig, clients, thrown, calls, requests,
                   responses, timers, tasks, console, unhandled>>

\* Nothing is left to run: no step of the action, no timer, no request.
Drained ==
    /\ process.stage # "init"
    /\ timers = {} /\ requests = {} /\ responses = {}
    /\ thrown # <<>> \/ clients # <<>>
    /\ clients # <<>> => calls # <<>>
    /\ process.stage = "tokens" /\ calls # <<>> => calls[1].result = "pending"
    /\ process.mode = "throw" => ~Unobserved

\* The event loop is empty: the process ends with process.exitCode, which
\* nothing has set.
RuntimeDrain ==
    /\ process.status = "running"
    /\ Drained
    /\ process' = Exit(process, process.exitCode)
    /\ UNCHANGED <<env, defaultConfig, clients, thrown, calls, requests,
                   responses, timers, tasks, console, unhandled>>

\* SpecCli: one run of the action with any arguments, environment and
\* prompt answers, under either treatment of unobserved rejections.
InitCli ==
    \E e \in CliEnvs : \E m \in {"throw", "warn"} :
        /\ env = e
        /\ defaultConfig = PristineDefaults
        /\ clients = <<>>
        /\ thrown = <<>>
        /\ calls = <<>>
        /\ requests = {}
        /\ responses = {}
        /\ timers = {}
        /\ tasks = <<>>
        /\ console = <<>>
        /\ unhandled = {}
        /\ process = NewProcess(m)

\* Nothing runs in a process that has exited.
Running == process.status = "running"

NextCli ==
    \/ \E b \in BlockArgs, t \in TypeArgs, r \in BOOLEAN, a1, a2 \in Answers :
            CliBegin(b, t, r, a1, a2)
    \/ CliConstruct
    \/ CliCall
    \/ CliSettled
    \/ RuntimeThrow
    \/ RuntimeDrain
    \/ \E req \in requests : Running /\ ServeEnqueue(req)
    \/ \E req \in requests : Running /\ FailRequest(req)
    \/ \E req \in requests : \E results \in ResultsFor(req.taskId) :
            Running /\ ServeGetTasks(req, results)
    \/ \E req \in requests : \E zip \in SampleArchives :
            Running /\ ServeDownload(req, zip)
    \/ \E resp \in responses : Running /\ EnqueueResponse(resp)
    \/ \E t \in timers :
            /\ Running
            /\ Len(calls[t.call].queried) < MaxPolls
            /\ TimerFire(t)
    \/ \E resp \in responses : Running /\ GetTasksResponse(resp)
    \/ \E resp \in responses : Running /\ DownloadResponse(resp)

SpecCli == InitCli /\ [][NextCli]_vars

---------------------------------------------------------------------------
(* Properties of the poll loop, checked under Spec. *)

\* What call c has in flight or pending.
MessagesOf(c) == {m \in requests \cup responses : m.call = c}
QueriesOf(c) == {m \in MessagesOf(c) : m.kind = "getTasks"}
TimersOf(c) == {t \in timers : t.call = c}

\* The i-th status query of the call reported the task in the given state.
Reported(call, i, state) ==
    /\ ~call.observed[i].threw
    /\ IsSome(call.observed[i].task)
    /\ Get(call.observed[i].task).state = state

\* The interval the client of the call is configured with.
ConfiguredInterval(call) ==
    IF "pollInterval" \in DOMAIN clients[call.client].options
    THEN clients[call.client].options.pollInterval
    ELSE DefaultPollInterval

InProgressTwiceThenSuccess(call) ==
    /\ Len(call.observed) = 3
    /\ Reported(call, 1, "in_progress")
    /\ Reported(call, 2, "in_progress")
    /\ Reported(call, 3, "success")
    /\ TruthyStr(Get(call.observed[3].task).status.exportURL)

\* C1: when the status queries of a call report in_progress, in_progress,
\* then success with an export URL, the call has made exactly three status
\* queries, each on the firing of a timer set with the configured poll
\* interval (the first included), nothing more is pending, and pollTask
\* resolved with that URL: getZipUrl resolves with it, the other
\* operations download it.
C1_ThreeQueriesThenUrl ==
    \A c \in DOMAIN calls :
        LET call == calls[c]
            url == Get(Get(call.observed[3].task).status.exportURL)
        IN  InProgressTwiceThenSuccess(call) =>
                /\ Len(call.queried) = 3
                /\ call.delays = [i \in 1..3 |-> Some(ConfiguredInterval(call))]
                /\ call.timersSet = 3
                /\ TimersOf(c) = {}
                /\ QueriesOf(c) = {}
                /\ call.poll = "resolved"
                /\ call.settles = 1
                /\ IF call.op = "getZipUrl"
                   THEN call.result = "resolved" /\ call.value = url
                   ELSE call.downloads = <<url>>

C1_Witness ==
    \E c \in DOMAIN calls :
        /\ InProgressTwiceThenSuccess(calls[c])
        /\ calls[c].op = "getZipUrl"
        /\ calls[c].result = "resolved"

\* The last status query of the call failed in the network or was refused.
QueryErrored(call) ==
    /\ call.observed # <<>>
    /\ call.observed[Len(call.observed)].threw

\* C2: when a status query of a call has failed with a network or HTTP
\* error, the call is rejected with that error, and it has no timer
\* pending and no status query in flight.
C2_QueryErrorRejectsCall ==
    \A c \in DOMAIN calls :
        QueryErrored(calls[c]) =>
            /\ calls[c].result = "rejected"
            /\ calls[c].reason = AxiosError("getTasks")
            /\ TimersOf(c) = {}
            /\ QueriesOf(c) = {}

\* The last status query of the call reported its task as failed: success
\* without an export URL, or a state that is none of the three known ones.
ReportedFailure(call) ==
    /\ call.observed # <<>>
    /\ LET last == call.observed[Len(call.observed)]
       IN  /\ ~last.threw
           /\ IsSome(last.task)
           /\ \/ /\ Get(last.task).state = "success"
                 /\ Get(last.task).status.exportURL \in {None, Some(<<>>)}
              \/ Get(last.task).state \notin
                    {"not_started", "in_progress", "success"}

\* C3: when a status query reports success without an export URL, or a
\* state other than not_started, in_progress and success, the call is
\* rejected with the export-task-failed error of its task, and no further
\* status query is scheduled: no timer was set after that query, none is
\* pending and no query is in flight.
C3_FailureReportRejects ==
    \A c \in DOMAIN calls :
        ReportedFailure(calls[c]) =>
            /\ calls[c].poll = "rejected"
            /\ calls[c].result = "rejected"
            /\ calls[c].reason = <<"Export task failed", Get(calls[c].taskId)>>
            /\ calls[c].timersSet = Len(calls[c].observed)
            /\ TimersOf(c) = {}
            /\ QueriesOf(c) = {}

C3_Witness ==
    \E c \in DOMAIN calls :
        /\ ReportedFailure(calls[c])
        /\ Len(calls[c].observed) = 2
        /\ Get(calls[c].observed[2].task).state = "success"
        /\ calls[c].result = "rejected"

\* The resolver yields no identifier for the input of the call.
InvalidIdentifier(call) == validateUuid(blockIdFromUrl(call.idOrUrl)) = None

\* C9: a call whose identifier the resolver rejects is rejected with the
\* invalid-identifier error, and no request of any kind is ever sent for
\* it: it has sent none, has none in flight, no timer, and the remote
\* service has no task of it.
C9_InvalidIdentifierNoRequest ==
    \A c \in DOMAIN calls :
        InvalidIdentifier(calls[c]) =>
            /\ calls[c].result = "rejected"
            /\ calls[c].reason = <<"Invalid URL or blockId", calls[c].idOrUrl>>
            /\ calls[c].sent = 0
            /\ MessagesOf(c) = {}
            /\ TimersOf(c) = {}
            /\ \A t \in DOMAIN tasks : tasks[t].call # c

C9_Witness ==
    \E c \in DOMAIN calls :
        /\ InvalidIdentifier(calls[c])
        /\ calls[c].idOrUrl[1] = "urlWithoutId"
        /\ calls[c].result = "rejected"

---------------------------------------------------------------------------
(* Properties of the configuration, checked under SpecCfg. *)

\* The configuration of a client by its own constructor options alone.
OwnConfig(cl) == ObjectAssign(PristineDefaults, clients[cl].options)

EnqueueMessages == {m \in requests \cup responses : m.kind = "enqueueTask"}

\* C4: the configuration of every client is its own constructor options
\* merged over the pristine defaults, whatever other clients were
\* constructed before or after it: the body its getTaskId sent is the one
\* of that configuration (recursive false when the client has no recursive
\* option), and the interval it polls with is that configuration's.
C4_ConfigIsOwnOptionsOverDefaults ==
    /\ \A cl \in DOMAIN clients : thisConfig(cl) = OwnConfig(cl)
    /\ \A m \in EnqueueMessages :
            m.body = EnqueueBody("b1", OwnConfig(calls[m.call].client))
    /\ \A t \in timers :
            t.delay = Some(OwnConfig(calls[t.call].client).pollInterval)

\* C8: the body of every enqueue request has no pollInterval, carries at
\* the request level a boolean recursive that is true exactly when the
\* configuration the client has at the call sets recursive to true, and
\* has as export options the other options of that configuration, with
\* their values, and exportType, which is "markdown" when the
\* configuration does not set it.
C8_EnqueueBodyFromConfig ==
    \A m \in EnqueueMessages :
        LET config == calls[m.call].config
            request == m.body.task.request
            passed == DOMAIN config \ {"recursive", "pollInterval"}
        IN  /\ "pollInterval" \notin DOMAIN request
            /\ "pollInterval" \notin DOMAIN request.exportOptions
            /\ "recursive" \notin DOMAIN request.exportOptions
            /\ request.recursive \in BOOLEAN
            /\ request.recursive =
                    ("recursive" \in DOMAIN config /\ config.recursive)
            /\ DOMAIN request.exportOptions = passed \cup {"exportType"}
            /\ \A k \in passed : request.exportOptions[k] = config[k]
            /\ "exportType" \notin DOMAIN config =>
                    request.exportOptions.exportType = "markdown"

C8_Witness ==
    \E m \in EnqueueMessages :
        /\ calls[m.call].config =
                [recursive |-> TRUE, pollInterval |-> 500, exportType |-> "html"]
        /\ m.body.task.request.recursive
        /\ m.body.task.request.exportOptions = [exportType |-> "html"]

---------------------------------------------------------------------------
(* Properties of the credentials, checked under SpecCred. *)

\* A credential source that gives nothing: undefined, or all white space.
Blank(m) == ~IsSome(m) \/ \A i \in DOMAIN Get(m) : Get(m)[i] = " "

\* The credential is absent or blank in the argument and the environment.
Missing(envName, arg) == Blank(arg) /\ Blank(env[envName])

\* C10: no client exists that was constructed with a credential absent or
\* blank in both the argument and the environment; a constructor call
\* that did not produce a client threw the missing-credential error of
\* such a credential; and without a client there is no call, request,
\* response or remote task.
C10_MissingCredentialNoClient ==
    /\ \A cl \in DOMAIN clients :
            /\ ~Missing(tokenV2Name, clients[cl].tokenV2)
            /\ ~Missing(fileTokenName, clients[cl].fileToken)
    /\ \A i \in DOMAIN thrown :
            \/ /\ thrown[i].error = <<"Missing", tokenV2Name>>
               /\ Missing(tokenV2Name, thrown[i].tokenV2)
            \/ /\ thrown[i].error = <<"Missing", fileTokenName>>
               /\ Missing(fileTokenName, thrown[i].fileToken)
    /\ clients = <<>> =>
            /\ calls = <<>>
            /\ requests = {} /\ responses = {}
            /\ tasks = <<>>

C10_Witness ==
    /\ thrown # <<>>
    /\ thrown[1].tokenV2 = Some(<<"t">>)
    /\ thrown[1].fileToken = Some(<<" ">>)
    /\ env[fileTokenName] = Some(<<>>)
    /\ clients = <<>>

---------------------------------------------------------------------------
(* Properties of concurrent calls, checked under SpecConc. *)

\* The remote task that was created for the enqueue request of call c.
OwnTasks(c) == {t \in DOMAIN tasks : tasks[t].call = c}

\* C5: every status query of a call asks for the task the remote service
\* created for that call's own enqueue request, and a settled call has
\* the export URL of that task, or the failure of that task, which its
\* last status query reported.
C5_CallsKeepToTheirOwnTask ==
    \A c \in DOMAIN calls :
        LET call == calls[c]
        IN  /\ \A i \in DOMAIN call.queried : call.queried[i] \in OwnTasks(c)
            /\ \A m \in QueriesOf(c) : m.taskId \in OwnTasks(c)
            /\ call.result = "resolved" =>
                    /\ \E t \in OwnTasks(c) : call.value = UrlOf(t)
                    /\ Reported(call, Len(call.observed), "success")
                    /\ Get(call.observed[Len(call.observed)].task).id
                            \in OwnTasks(c)
            /\ call.result = "rejected" =>
                    /\ \E t \in OwnTasks(c) :
                            call.reason = <<"Export task failed", t>>
                    /\ Reported(call, Len(call.observed), "failure")
                    /\ Get(call.observed[Len(call.observed)].task).id
                            \in OwnTasks(c)

C5_Witness ==
    /\ Len(calls) = 2
    /\ calls[1].result = "resolved" /\ calls[1].value = UrlOf(2)
    /\ calls[2].result = "resolved" /\ calls[2].value = UrlOf(1)
    /\ Len(calls[1].observed) = 2

---------------------------------------------------------------------------
(* Properties of the archive lookup, checked under SpecZip. *)

\* The text of the entry with the given name in the archive.
TextOf(zip, name) ==
    LET i == CHOOSE i \in DOMAIN zip : zip[i].name = name
    IN  Trim(zip[i].data)

HasEntry(zip, name) == \E i \in DOMAIN zip : zip[i].name = name

\* C6: when the archive has an entry view_current.csv and an entry
\* table_all.csv, both with text, in either order, getCsvString resolves
\* with the text of view_current.csv if onlyCurrentView is true and with
\* the text of table_all.csv if it is false or not given.
C6_CsvViewSelection ==
    \A c \in DOMAIN calls :
        LET call == calls[c]
            zip == Get(call.zip)
        IN  ( /\ call.op = "getCsvString"
              /\ IsSome(call.zip)
              /\ HasEntry(zip, ViewCurrentCsv) /\ HasEntry(zip, TableAllCsv)
              /\ TextOf(zip, ViewCurrentCsv) # <<>>
              /\ TextOf(zip, TableAllCsv) # <<>> ) =>
                /\ call.result = "resolved"
                /\ call.value =
                        IF call.onlyCurrentView = Some(TRUE)
                        THEN TextOf(zip, ViewCurrentCsv)
                        ELSE TextOf(zip, TableAllCsv)

\* The suffix the operation of the call looks for.
SuffixOf(call) ==
    IF call.op = "getCsvString" THEN CsvSuffix(call.onlyCurrentView) ELSE DotMd

\* The positions of the entries that satisfy the predicate of the call.
Matches(call) ==
    {i \in DOMAIN Get(call.zip) : EndsWith(Get(call.zip)[i].name, SuffixOf(call))}

\* C7: getFileString resolves with the trimmed text of the first entry,
\* in archive order, that satisfies the predicate whenever some entry
\* satisfies it, and is rejected with the file-not-found error exactly
\* when none does.
C7_FirstMatchOrNotFound ==
    \A c \in DOMAIN calls :
        LET call == calls[c]
            zip == Get(call.zip)
            first == CHOOSE i \in Matches(call) : \A j \in Matches(call) : i <= j
        IN  (call.op \in {"getCsvString", "getMdString"} /\ IsSome(call.zip)) =>
                IF Matches(call) # {}
                THEN /\ call.result = "resolved"
                     /\ call.value = Trim(zip[first].data)
                ELSE /\ call.result = "rejected"
                     /\ call.reason = <<"Could not find file in ZIP.">>

---------------------------------------------------------------------------
(* The command-line action, checked under SpecCli. *)

\* The last status query of the call was answered without a record of
\* the task.
RecordMissing(call) ==
    /\ call.observed # <<>>
    /\ ~call.observed[Len(call.observed)].threw
    /\ ~IsSome(call.observed[Len(call.observed)].task)

\* The run of the action has failed: the file type is none, the
\* constructor threw, the export call was rejected (invalid identifier,
\* failed enqueue, failure report, failed download, no matching file) or a
\* status query of it errored or came back without the task's record.
CliFailure ==
    \/ process.fileType # "" /\ ~isFileType(process.fileType)
    \/ thrown # <<>>
    \/ /\ calls # <<>>
       /\ \/ calls[1].result = "rejected"
          \/ QueryErrored(calls[1])
          \/ RecordMissing(calls[1])

\* C11: when a run of the command-line action has failed in any of these
\* ways and the process has ended, its exit status is not zero.
C11_FailureExitsNonZero ==
    process.status = "exited" /\ CliFailure => process.exitCode # 0

---------------------------------------------------------------------------
(* The order of the steps of one call, checked under Spec. *)

EnqueuesOf(c) == {m \in MessagesOf(c) : m.kind = "enqueueTask"}
DownloadsOf(c) == {m \in MessagesOf(c) : m.kind = "download"}

\* The last status query of the call reported success with the URL.
SuccessWith(call, url) ==
    /\ call.observed # <<>>
    /\ Reported(call, Len(call.observed), "success")
    /\ Get(call.observed[Len(call.observed)].task).status.exportURL = Some(url)

\* C12: the steps of one call come in order.  A request is sent only for
\* a valid identifier, and exactly one of the requests sent is the
\* enqueue; a timer or a status query exists only once the enqueue
\* response has delivered the id of the call's own task, and every query
\* asks for that id; there is at most one download, sent only when the
\* last status query reported success with an export URL, to exactly that
\* URL, with no query after it; the archive is reached only through the
\* answered download.
C12_StepsInOrder ==
    \A c \in DOMAIN calls :
        LET call == calls[c]
        IN  /\ call.sent > 0 => ~InvalidIdentifier(call)
            /\ call.sent > 0 =>
                    call.sent = 1 + Len(call.queried) + Len(call.downloads)
            /\ Cardinality(EnqueuesOf(c)) <= 1
            /\ Cardinality(OwnTasks(c)) <= 1
            /\ call.queried # <<>> \/ TimersOf(c) # {} =>
                    /\ EnqueuesOf(c) = {}
                    /\ IsSome(call.taskId)
                    /\ OwnTasks(c) = {Get(call.taskId)}
                    /\ \A i \in DOMAIN call.queried :
                            call.queried[i] = Get(call.taskId)
            /\ Len(call.downloads) <= 1
            /\ call.downloads # <<>> =>
                    /\ call.op # "getZipUrl"
                    /\ SuccessWith(call, call.downloads[1])
                    /\ Len(call.queried) = Len(call.observed)
                    /\ TimersOf(c) = {}
                    /\ \A m \in DownloadsOf(c) : m.url = call.downloads[1]
            /\ DownloadsOf(c) # {} => call.downloads # <<>>
            /\ IsSome(call.zip) =>
                    /\ call.downloads # <<>>
                    /\ DownloadsOf(c) = {}

\* A call that went through every step: two status queries, the download
\* and the archive.
C12_Witness ==
    \E c \in DOMAIN calls :
        /\ Len(calls[c].queried) = 2
        /\ Len(calls[c].downloads) = 1
        /\ IsSome(calls[c].zip)
        /\ calls[c].result = "resolved"

---------------------------------------------------------------------------
(* The poll loop of one call, checked under Spec. *)

\* The status query observed a state that ends the loop: success with an
\* export URL, or anything that is not in progress or not started.
Terminal(o) ==
    /\ ~o.threw
    /\ IsSome(o.task)
    /\ Get(o.task).state \notin {"not_started", "in_progress"}

\* Every status query of the call so far reported not_started or
\* in_progress.
AllUnfinished(call) ==
    \A i \in DOMAIN call.observed :
        Reported(call, i, "not_started") \/ Reported(call, i, "in_progress")

\* C13: while every status query of a started poll loop has reported
\* not_started or in_progress, the loop has neither resolved nor rejected
\* and the call is pending; after each such report exactly one more timer
\* was set, with the same interval as every one before, so that exactly
\* one timer is pending or one query in flight, however many reports
\* there were.  A loop that has resolved or rejected has a last report
\* that is terminal: success with a URL when resolved, otherwise when
\* rejected.
C13_UnfinishedKeepsPolling ==
    \A c \in DOMAIN calls :
        LET call == calls[c]
            n == Len(call.observed)
        IN  /\ call.poll # "none" /\ AllUnfinished(call) =>
                /\ call.poll = "pending"
                /\ call.result = "pending"
                /\ call.settles = 0
                /\ call.timersSet = n + 1
                /\ Cardinality(TimersOf(c)) + Cardinality(QueriesOf(c)) = 1
                /\ \A t \in TimersOf(c) :
                        t.n = n + 1 /\ t.delay = call.interval
                /\ \A i \in DOMAIN call.delays :
                        call.delays[i] = call.interval
                /\ call.interval = Some(ConfiguredInterval(call))
            /\ call.poll \in {"resolved", "rejected"} =>
                /\ n > 0
                /\ Terminal(call.observed[n])
                /\ \A i \in 1..(n - 1) : ~Terminal(call.observed[i])
                /\ call.poll = "resolved" <=>
                        /\ Reported(call, n, "success")
                        /\ TruthyStr(Get(call.observed[n].task).status.exportURL)

\* A loop that has seen not_started and then in_progress up to the bound
\* of the model and waits for the next query.
C13_Witness ==
    \E c \in DOMAIN calls :
        /\ Len(calls[c].observed) = MaxPolls
        /\ Reported(calls[c], 1, "not_started")
        /\ \A i \in 2..MaxPolls : Reported(calls[c], i, "in_progress")
        /\ TimersOf(c) # {}

---------------------------------------------------------------------------
(* Termination of the poll loop, checked under SpecLive. *)

\* The call has settled as its last report says: resolved with the export
\* URL of a success report that has one, rejected after any other
\* terminal report.
SettledAsReported ==
    /\ calls # <<>>
    /\ calls[1].observed # <<>>
    /\ LET call == calls[1]
           last == call.observed[Len(call.observed)]
       IN  /\ Terminal(last)
           /\ IF Get(last.task).state = "success"
                 /\ TruthyStr(Get(last.task).status.exportURL)
              THEN /\ call.result = "resolved"
                   /\ call.value = Get(Get(last.task).status.exportURL)
              ELSE /\ call.result = "rejected"
                   /\ call.reason = ExportTaskFailed(Get(call.taskId))

\* C14: with timers firing and responses delivered and served fairly, no
\* request failing and the task reporting a terminal state sooner or
\* later, a call that was started eventually settles: resolved with the
\* export URL after success with a URL, rejected after any other terminal
\* report.
C14_EventuallySettles == (calls # <<>>) ~> SettledAsReported

\* The call settled on the last query the model allows, every report
\* before it unfinished.
C14_Witness ==
    /\ SettledAsReported
    /\ Len(calls[1].observed) = MaxPolls
    /\ AllUnfinished([calls[1] EXCEPT !.observed = SubSeq(@, 1, MaxPolls - 1)])

---------------------------------------------------------------------------
(* A status response without the task's record, checked under Spec. *)

\* C15: when a status query of a call was answered without a record of
\* the task, the call is rejected: the error reaches the caller.
C15_MissingRecordRejectsCall ==
    \A c \in DOMAIN calls :
        RecordMissing(calls[c]) => calls[c].result = "rejected"

---------------------------------------------------------------------------
(* A rejected enqueue request, checked under Spec. *)

\* The enqueue request of the call was rejected and the rejection has
\* been delivered: the call has sent a request, the service has created
\* no task for it and no enqueue request or response of it is in flight.
EnqueueFailed(c) ==
    /\ calls[c].sent > 0
    /\ OwnTasks(c) = {}
    /\ EnqueuesOf(c) = {}

\* C16: when the enqueue request of a call was rejected, the call is
\* rejected with that error, and no status query and no download is ever
\* issued for it: the enqueue is the only request it sent, it has no
\* timer and nothing in flight, and its poll loop was never started.
C16_EnqueueFailureEndsCall ==
    \A c \in DOMAIN calls :
        EnqueueFailed(c) =>
            /\ calls[c].result = "rejected"
            /\ calls[c].reason = AxiosError("enqueueTask")
            /\ calls[c].sent = 1
            /\ calls[c].queried = <<>>
            /\ calls[c].downloads = <<>>
            /\ calls[c].poll = "none"
            /\ calls[c].timersSet = 0
            /\ TimersOf(c) = {}
            /\ MessagesOf(c) = {}

C16_Witness ==
    \E c \in DOMAIN calls :
        /\ EnqueueFailed(c)
        /\ calls[c].op = "getMdString"
        /\ calls[c].result = "rejected"

---------------------------------------------------------------------------
(* The error of a failed export task, checked under Spec. *)

\* The record of the task in the last report of the call.
LastTask(call) == Get(call.observed[Len(call.observed)].task)

\* What an error value carries: the task id is its second component, the
\* status payload its third, when it has them.
CarriesTaskId(reason, taskId) == Len(reason) >= 2 /\ reason[2] = taskId
CarriesPayload(reason, task) == Len(reason) >= 3 /\ reason[3] = task

---------------------------------------------------------------------------
(* Settling of the poll loop's promise, checked under Spec. *)

\* C18: resolve or reject of a poll loop's promise is called at most
\* once, and once the promise is resolved or rejected the call has no
\* timer pending, no status query in flight, and has issued no query and
\* set no timer after the report it settled on.
C18_SettledOnceThenQuiet ==
    \A c \in DOMAIN calls :
        LET call == calls[c]
        IN  /\ call.settles <= 1
            /\ call.settles = 1 <=> call.poll \in {"resolved", "rejected"}
            /\ call.poll \in {"resolved", "rejected"} =>
                    /\ TimersOf(c) = {}
                    /\ QueriesOf(c) = {}
                    /\ Len(call.queried) = Len(call.observed)
                    /\ call.timersSet = Len(call.observed)

\* A loop that resolved on its second report while the download it led
\* to is still in flight.
C18_Witness ==
    \E c \in DOMAIN calls :
        /\ calls[c].poll = "resolved"
        /\ calls[c].settles = 1
        /\ Len(calls[c].observed) = 2
        /\ DownloadsOf(c) # {}

---------------------------------------------------------------------------
(* One poll at a time, checked under Spec. *)

\* C19: a call has at most one pending poll timer or one status query in
\* flight, never both and never two of either, whatever the order in
\* which timers fire and responses arrive; and a status query is sent
\* only on the firing of a timer, one per timer.
C19_OnePollAtATime ==
    \A c \in DOMAIN calls :
        /\ Cardinality(TimersOf(c)) + Cardinality(QueriesOf(c)) <= 1
        /\ Len(calls[c].queried) + Cardinality(TimersOf(c)) = calls[c].timersSet
        /\ Len(calls[c].observed) + Cardinality(QueriesOf(c))
                = Len(calls[c].queried)

\* The second status query of a call in flight, its timer gone.
C19_Witness ==
    \E c \in DOMAIN calls :
        /\ Len(calls[c].observed) = 1
        /\ Cardinality(QueriesOf(c)) = 1
        /\ TimersOf(c) = {}

====
